---------------------------- MODULE Spec2Model ----------------------------
(***************************************************************************)
(* A model of packages/cubejs-server-core/core/index.js: the constructor   *)
(* of CubejsServerCore, the placeholder check, initApp, the lazily cached  *)
(* driver of getDriver(), the telemetry emitter this.event, the            *)
(* uncaughtException handler and the dev-server endpoints.                 *)
(*                                                                         *)
(* JavaScript runs every piece of code between two awaits to completion,   *)
(* so one action is one such piece: the synchronous head of an async       *)
(* function, or the continuation that runs when an awaited promise has     *)
(* settled.  The outcome of a collaborator (the driver factory, the        *)
(* connection test, the telemetry sink, a file write) is an input of the   *)
(* action, drawn with \E.                                                  *)
(***************************************************************************)
EXTENDS Integers, Sequences, FiniteSets, TLC

\* ------------------------------------------------------------------ bounds
\* getDriver() calls made by the orchestrator's driver accessor
MaxCalls == 3

\* uncaught exceptions delivered to the process
MaxExc == 3

\* constructor calls in one process
MaxConstructs == 2

\* initApp calls on one instance
MaxInitApp == 2

\* requests to the dev-server endpoints
MaxReq == 1

Calls == 1..MaxCalls
Excs == 1..MaxExc
\* request r uses the getDriver call of the same number
Reqs == 1..MaxReq

\* ------------------------------------------------------ JavaScript values
\* A value is a record [t, s]: its type and, for a string, its characters
\* (or longer tokens, where only whole tokens are ever searched for).
Undefined == [t |-> "undefined", s |-> <<>>]
Str(chars) == [t |-> "string", s |-> chars]
Object(tag) == [t |-> "object", s |-> <<tag>>]

Bool(b) == [t |-> "boolean", s |-> <<IF b THEN "true" ELSE "false">>]
Function(tag) == [t |-> "function", s |-> <<tag>>]
\* not a value: the mark of a key an object does not have
Absent == [t |-> "absent", s |-> <<>>]

\* ToBoolean: undefined, false and the empty string are falsy.
Truthy(v) ==
    CASE v.t \in {"undefined", "absent"} -> FALSE
      [] v.t = "string" -> Len(v.s) > 0
      [] v.t = "boolean" -> v.s = <<"true">>
      [] OTHER -> TRUE

\* obj.key: a key the object does not have reads as undefined
Get(obj, key) == IF obj[key] = Absent THEN Undefined ELSE obj[key]

\* a || b
Or(a, b) == IF Truthy(a) THEN a ELSE b

OccursAt(hay, needle, i) ==
    /\ i + Len(needle) <= Len(hay)
    /\ \A k \in 1..Len(needle) : hay[i + k] = needle[k]

\* String.prototype.indexOf: the first 0-based position of needle in hay, or -1.
IndexOf(hay, needle) ==
    LET hits == {i \in 0..Len(hay) : OccursAt(hay, needle, i)}
    IN  IF hits = {} THEN -1 ELSE CHOOSE i \in hits : \A j \in hits : i <= j

\* ------------------------------------------------------------------- state
VARIABLES
    driver,        \* this.driver: 0 when never assigned, else a driver instance
    gdPc,          \* per getDriver() call: idle, testing, resolved, rejected
    gdSeen,        \* per call: the value of this.driver it read on entry (-1: not yet)
    gdLocal,       \* per call: the instance its factory call returned (0: none)
    gdRet,         \* per call: the instance the call resolved with (0: none)
    instState,     \* per driver instance: none, testing, ok, failed
    factoryCalls,  \* how often this.driverFactory was invoked
    testCalls      \* how often testConnection was invoked

VARIABLES
    events         \* the calls of this.event so far, in order, each with the state of its promise

VARIABLES
    platform,           \* process.platform
    thrown,             \* the values of the uncaught exceptions delivered so far
    hpc,                \* per delivered exception, its handler run: none, awaiting, rejected, exited
    causeErrorPromise,  \* 0 while unset, else the event (its index in events) it holds
    guidance,           \* the Redis installation hints printed so far
    exited,             \* process.exit was called
    exitCode            \* the status it was called with

VARIABLES
    env,           \* process.env: the variables this file reads
    inst,          \* `this` of the last constructor call (not built when it threw)
    ctor,          \* the constructor calls: how many, and the last one's argument and outcome
    effects        \* what the constructor calls have created and registered so far

VARIABLES
    initAppCalls,  \* how often initApp was called
    initAppResult, \* the outcome of the last initApp call
    composition,   \* the steps the last initApp call performed, in order
    routes,        \* what has been registered on the app, in order
    created        \* the last CubejsServerCore.createDriver call and its outcome

VARIABLES
    reqEp,         \* per request: the route it came in on (none: not yet received)
    reqPc,         \* per request: where its handler stands
    reqFiles,      \* per generate-schema request: the files the template generated
    reqRes,        \* per request: the body passed to res.json, <<>> while none was sent
    reqFail,       \* per request: the collaborator whose failure ended the handler
    writes,        \* per request and generated file: none, pending, ok, failed
    disk           \* the paths written so far

cfgVars == <<env, inst, ctor, effects>>
devVars == <<reqEp, reqPc, reqFiles, reqRes, reqFail, writes, disk>>
appVars == <<initAppCalls, initAppResult, composition, routes, created>>
driverVars == <<driver, gdPc, gdSeen, gdLocal, gdRet, instState, factoryCalls, testCalls>>
fatalVars == <<platform, thrown, hpc, causeErrorPromise, guidance, exited, exitCode>>

vars == <<cfgVars, appVars, driverVars, events, fatalVars, devVars>>

\* -------------------------------------------------- checkEnvForPlaceholders
\* '<YOUR_DB_'
placeholderSubstr == <<"<", "Y", "O", "U", "R", "_", "D", "B", "_">>

credentials == {"CUBEJS_DB_HOST", "CUBEJS_DB_NAME", "CUBEJS_DB_USER", "CUBEJS_DB_PASS"}

\* A check for the marker anywhere in the value.
PlaceholderFoundAnywhere(e) ==
    \E credential \in credentials :
        /\ Truthy(e[credential])
        /\ IndexOf(e[credential].s, placeholderSubstr) # -1

\* credentials.find(c => process.env[c] && process.env[c].indexOf(placeholderSubstr) === 0):
\* checkEnvForPlaceholders throws when this holds.
PlaceholderFound(e) ==
    \E credential \in credentials :
        /\ Truthy(e[credential])
        /\ IndexOf(e[credential].s, placeholderSubstr) = 0

\* -------------------------------------------------------------- constructor
OptionKeys == {"driverFactory", "apiSecret", "dbType", "devServer", "schemaPath", "logger"}

\* {} (and the options || {} of a call without argument)
EmptyObject == [k \in OptionKeys |-> Absent]

\* The defaults the constructor spreads the options over.
DefaultOptions(e) ==
    [k \in OptionKeys |->
        CASE k = "driverFactory" -> Function("createDriver")
          [] k = "apiSecret" -> e.CUBEJS_API_SECRET
          [] k = "dbType" -> e.CUBEJS_DB_TYPE
          [] k = "devServer" -> Bool(e.NODE_ENV # Str(<<"production">>))
          [] OTHER -> Absent]

\* A merge in the other order, { ...options, ...defaults }.
SpreadDefaultsWin(defaults, options) ==
    [k \in OptionKeys |-> IF defaults[k] # Absent THEN defaults[k] ELSE options[k]]

\* { ...defaults, ...options }: a key the options object has wins, whatever
\* its value, undefined included.
Spread(defaults, options) ==
    [k \in OptionKeys |-> IF options[k] # Absent THEN options[k] ELSE defaults[k]]

\* A check that forgets dbType.
RequiredMissingButDbType(o) ==
    \/ ~Truthy(Get(o, "driverFactory"))
    \/ ~Truthy(Get(o, "apiSecret"))

\* !options.driverFactory || !options.apiSecret || !options.dbType
RequiredMissing(o) ==
    \/ ~Truthy(Get(o, "driverFactory"))
    \/ ~Truthy(Get(o, "apiSecret"))
    \/ ~Truthy(Get(o, "dbType"))

NoInstance ==
    [built |-> FALSE, options |-> EmptyObject, driverFactory |-> Undefined,
     apiSecret |-> Undefined, schemaPath |-> Undefined, dbType |-> Undefined,
     logger |-> "none", repository |-> Undefined, hasEvent |-> FALSE]

NoEffects == [repositories |-> 0, analyticsClients |-> 0, handlers |-> 0]

\* The fields the constructor assigns, given the merged options.
NewInstance(o) ==
    [built |-> TRUE,
     options |-> o,
     driverFactory |-> Get(o, "driverFactory"),
     apiSecret |-> Get(o, "apiSecret"),
     schemaPath |-> Or(Get(o, "schemaPath"), Str(<<"schema">>)),
     dbType |-> Get(o, "dbType"),
     logger |-> IF Truthy(Get(o, "logger")) THEN "options.logger"
                ELSE IF Truthy(Get(o, "devServer")) THEN "console and telemetry"
                ELSE "console",
     repository |-> Or(Get(o, "schemaPath"), Str(<<"schema">>)),
     hasEvent |-> Truthy(Get(o, "devServer"))]

\* new FileRepository, and in dev-mode new Analytics and process.on
EffectsOfConstruction(o, before) ==
    [repositories |-> before.repositories + 1,
     analyticsClients |-> before.analyticsClients + (IF Truthy(Get(o, "devServer")) THEN 1 ELSE 0),
     handlers |-> before.handlers + (IF Truthy(Get(o, "devServer")) THEN 1 ELSE 0)]

\* new CubejsServerCore(options), as the state it leaves: it throws before
\* anything is assigned or created, or it runs to its end.
Constructed(options, e, before) ==
    LET merged == Spread(DefaultOptions(e), options)
    IN  IF RequiredMissing(merged)
        THEN [threw |-> TRUE, inst |-> NoInstance, effects |-> before]
        ELSE [threw |-> FALSE, inst |-> NewInstance(merged),
              effects |-> EffectsOfConstruction(merged, before)]

Construct(options) ==
    /\ ctor.calls < MaxConstructs
    /\ LET r == Constructed(options, env, effects)
       IN  /\ ctor' = [calls |-> ctor.calls + 1, options |-> options, threw |-> r.threw,
                       before |-> effects]
           /\ inst' = r.inst
           /\ effects' = r.effects
    /\ UNCHANGED env

EnvSecrets == {Undefined, Str(<<"env-secret">>)}
EnvDbTypes == {Undefined, Str(<<>>), Str(<<"postgres">>)}
EnvNodeEnvs == {Undefined, Str(<<"production">>), Str(<<"development">>)}

OptionObjects ==
    {[driverFactory |-> f, apiSecret |-> a, dbType |-> d, devServer |-> v,
      schemaPath |-> p, logger |-> l] :
        f \in {Absent, Undefined, Function("given")},
        a \in {Absent, Undefined, Str(<<>>), Str(<<"given">>)},
        d \in {Absent, Undefined, Str(<<"given">>)},
        v \in {Absent, Bool(TRUE), Bool(FALSE)},
        p \in {Absent, Str(<<"given">>)},
        l \in {Absent}}

\* The environment of a dev server set up from its .env file, and the
\* instance `CubejsServerCore.create()` builds in it.
DevEnv ==
    [CUBEJS_API_SECRET |-> Str(<<"env-secret">>), CUBEJS_DB_TYPE |-> Str(<<"postgres">>),
     NODE_ENV |-> Undefined,
     CUBEJS_DB_HOST |-> Undefined, CUBEJS_DB_NAME |-> Undefined,
     CUBEJS_DB_USER |-> Undefined, CUBEJS_DB_PASS |-> Undefined]

DevServerBuilt ==
    /\ env = DevEnv
    /\ LET r == Constructed(EmptyObject, DevEnv, NoEffects)
       IN  /\ inst = r.inst
           /\ effects = r.effects
           /\ ctor = [calls |-> 1, options |-> EmptyObject, threw |-> r.threw,
                      before |-> NoEffects]

\* ---------------------------------------------------------------- getDriver
DriverInit ==
    /\ driver = 0
    /\ gdPc = [c \in Calls |-> "idle"]
    /\ gdSeen = [c \in Calls |-> -1]
    /\ gdLocal = [c \in Calls |-> 0]
    /\ gdRet = [c \in Calls |-> 0]
    /\ instState = [d \in Calls |-> "none"]
    /\ factoryCalls = 0
    /\ testCalls = 0

\* A getDriver that never looks at the cache.
CacheNeverUsed == TRUE

\* The guard of getDriver: `if (!this.driver)`.
CacheEmpty == driver = 0

\* getDriver() up to its first await (or to its return, when the cache is
\* filled).  factoryOk = FALSE: this.driverFactory() throws.
GetDriverStart(c, factoryOk) ==
    /\ gdPc[c] = "idle"
    /\ gdSeen' = [gdSeen EXCEPT ![c] = driver]
    /\ IF CacheEmpty
       THEN /\ factoryCalls' = factoryCalls + 1
            /\ IF factoryOk
               THEN /\ gdLocal' = [gdLocal EXCEPT ![c] = factoryCalls + 1]
                    /\ instState' = [instState EXCEPT ![factoryCalls + 1] = "testing"]
                    /\ testCalls' = testCalls + 1
                    /\ gdPc' = [gdPc EXCEPT ![c] = "testing"]
               ELSE /\ gdPc' = [gdPc EXCEPT ![c] = "rejected"]
                    /\ UNCHANGED <<gdLocal, instState, testCalls>>
            /\ UNCHANGED <<driver, gdRet>>
       ELSE /\ factoryOk
            /\ gdPc' = [gdPc EXCEPT ![c] = "resolved"]
            /\ gdRet' = [gdRet EXCEPT ![c] = driver]
            /\ UNCHANGED <<driver, gdLocal, instState, factoryCalls, testCalls>>

\* A getDriver that assigns this.driver before the connection test is awaited,
\* so that a failed instance stays cached.
GetDriverResumeCachesFirst(c, testOk) ==
    /\ gdPc[c] = "testing"
    /\ driver' = gdLocal[c]
    /\ IF testOk
       THEN /\ instState' = [instState EXCEPT ![gdLocal[c]] = "ok"]
            /\ gdRet' = [gdRet EXCEPT ![c] = gdLocal[c]]
            /\ gdPc' = [gdPc EXCEPT ![c] = "resolved"]
       ELSE /\ instState' = [instState EXCEPT ![gdLocal[c]] = "failed"]
            /\ gdPc' = [gdPc EXCEPT ![c] = "rejected"]
            /\ UNCHANGED gdRet
    /\ UNCHANGED <<gdSeen, gdLocal, factoryCalls, testCalls>>

\* A getDriver that keeps the instance cached first: the continuation
\* assigns only while the cache is empty, and returns the cached instance.
GetDriverResumeFirstWins(c, testOk) ==
    /\ gdPc[c] = "testing"
    /\ IF testOk
       THEN /\ instState' = [instState EXCEPT ![gdLocal[c]] = "ok"]
            /\ driver' = IF driver = 0 THEN gdLocal[c] ELSE driver
            /\ gdRet' = [gdRet EXCEPT ![c] = driver']
            /\ gdPc' = [gdPc EXCEPT ![c] = "resolved"]
       ELSE /\ instState' = [instState EXCEPT ![gdLocal[c]] = "failed"]
            /\ gdPc' = [gdPc EXCEPT ![c] = "rejected"]
            /\ UNCHANGED <<driver, gdRet>>
    /\ UNCHANGED <<gdSeen, gdLocal, factoryCalls, testCalls>>

\* The continuation after `await driver.testConnection()`: the assignment
\* `this.driver = driver` and the return, or the rejection of the call.
GetDriverResume(c, testOk) ==
    /\ gdPc[c] = "testing"
    /\ IF testOk
       THEN /\ instState' = [instState EXCEPT ![gdLocal[c]] = "ok"]
            /\ driver' = gdLocal[c]
            /\ gdRet' = [gdRet EXCEPT ![c] = gdLocal[c]]
            /\ gdPc' = [gdPc EXCEPT ![c] = "resolved"]
       ELSE /\ instState' = [instState EXCEPT ![gdLocal[c]] = "failed"]
            /\ gdPc' = [gdPc EXCEPT ![c] = "rejected"]
            /\ UNCHANGED <<driver, gdRet>>
    /\ UNCHANGED <<gdSeen, gdLocal, factoryCalls, testCalls>>

\* --------------------------------------------------------------- this.event
\* this.event(name, props) up to its first await: client.track is called with
\* the event.  The promise of the call is the new entry of events.
EventCall(name, props) ==
    events' = Append(events, [name |-> name, props |-> props, stage |-> "track",
                              failedAt |-> "none", promise |-> "pending"])

\* An emitter without the try/catch: the failure rejects the promise.
EventCatchMissing(ev, step) ==
    [ev EXCEPT !.stage = "settled", !.failedAt = step, !.promise = "rejected"]

\* catch (e) { }: the failure of track or of flush is dropped and the async
\* function returns.
EventCatch(ev, step) ==
    [ev EXCEPT !.stage = "settled", !.failedAt = step, !.promise = "fulfilled"]

\* The callback of client.track fires: on success client.flush is called.
TrackSettles(i, ok) ==
    /\ i \in 1..Len(events)
    /\ events[i].stage = "track"
    /\ events' = [events EXCEPT ![i] =
                     IF ok THEN [@ EXCEPT !.stage = "flush"] ELSE EventCatch(@, "track")]

\* The callback of client.flush fires: the async function returns.
FlushSettles(i, ok) ==
    /\ i \in 1..Len(events)
    /\ events[i].stage = "flush"
    /\ events' = [events EXCEPT ![i] =
                     IF ok THEN [@ EXCEPT !.stage = "settled", !.promise = "fulfilled"]
                     ELSE EventCatch(@, "flush")]

\* ----------------------------------------------------------------- initApp
AppInit ==
    /\ initAppCalls = 0
    /\ initAppResult = "none"
    /\ composition = <<>>
    /\ routes = <<>>
    /\ created = [called |-> FALSE, threw |-> FALSE, module |-> <<>>]

\* What apiGateway.initApp(app) registers.
GatewayRoutes == <<"apiGateway">>

\* What initDevEnv registers, in order; the last is serve-static.
DevRoutes ==
    <<"/playground/context", "/playground/db-schema", "/playground/files",
      "/playground/generate-schema", "serveStatic">>

\* An initApp that composes the app first and checks the credentials last.
InitAppBodyChecksLast ==
    /\ inst.built
    /\ initAppCalls < MaxInitApp
    /\ initAppCalls' = initAppCalls + 1
    /\ IF Truthy(Get(inst.options, "devServer"))
       THEN /\ composition' = <<"createCompilerApi", "createOrchestratorApi", "new ApiGateway",
                                "apiGateway.initApp", "initDevEnv", "checkEnvForPlaceholders">>
            /\ EventCall("Dev Server Start", Undefined)
            /\ routes' = routes \o GatewayRoutes \o DevRoutes
       ELSE /\ composition' = <<"createCompilerApi", "createOrchestratorApi", "new ApiGateway",
                                "apiGateway.initApp", "checkEnvForPlaceholders">>
            /\ routes' = routes \o GatewayRoutes
            /\ UNCHANGED events
    /\ initAppResult' = IF PlaceholderFound(env) THEN "placeholder error" ELSE "resolved"
    /\ UNCHANGED created

\* An initApp that calls initDevEnv whatever the devServer option is.
InitAppBodyDevAlways ==
    /\ inst.built
    /\ initAppCalls < MaxInitApp
    /\ initAppCalls' = initAppCalls + 1
    /\ IF PlaceholderFound(env)
       THEN /\ composition' = <<"checkEnvForPlaceholders">>
            /\ initAppResult' = "placeholder error"
            /\ UNCHANGED <<routes, events>>
       ELSE /\ composition' = <<"checkEnvForPlaceholders", "createCompilerApi",
                                "createOrchestratorApi", "new ApiGateway",
                                "apiGateway.initApp", "initDevEnv">>
            /\ EventCall("Dev Server Start", Undefined)
            /\ routes' = routes \o GatewayRoutes \o DevRoutes
            /\ initAppResult' = "resolved"
    /\ UNCHANGED created

\* initApp(app).  It awaits nothing: the whole body is one step.  The
\* collaborators are built in the order of the statements.
InitAppBody ==
    /\ inst.built
    /\ initAppCalls < MaxInitApp
    /\ initAppCalls' = initAppCalls + 1
    /\ IF PlaceholderFound(env)
       THEN /\ composition' = <<"checkEnvForPlaceholders">>
            /\ initAppResult' = "placeholder error"
            /\ UNCHANGED <<routes, events>>
       ELSE IF Truthy(Get(inst.options, "devServer"))
       THEN /\ composition' = <<"checkEnvForPlaceholders", "createCompilerApi",
                                "createOrchestratorApi", "new ApiGateway",
                                "apiGateway.initApp", "initDevEnv">>
            /\ EventCall("Dev Server Start", Undefined)
            /\ routes' = routes \o GatewayRoutes \o DevRoutes
            /\ initAppResult' = "resolved"
       ELSE /\ composition' = <<"checkEnvForPlaceholders", "createCompilerApi",
                                "createOrchestratorApi", "new ApiGateway",
                                "apiGateway.initApp">>
            /\ routes' = routes \o GatewayRoutes
            /\ initAppResult' = "resolved"
            /\ UNCHANGED events
    /\ UNCHANGED created

\* ------------------------------------------------------------ createDriver
DriverDependencies ==
    [postgres |-> "@cubejs-backend/postgres-driver",
     mysql |-> "@cubejs-backend/mysql-driver",
     athena |-> "@cubejs-backend/athena-driver",
     jdbc |-> "@cubejs-backend/jdbc-driver",
     mongobi |-> "@cubejs-backend/mongobi-driver"]

\* DriverDependencies[dbType] || DriverDependencies.jdbc
driverDependencies(dbType) ==
    IF dbType.t = "string" /\ Len(dbType.s) = 1 /\ dbType.s[1] \in DOMAIN DriverDependencies
    THEN DriverDependencies[dbType.s[1]]
    ELSE DriverDependencies.jdbc

\* CubejsServerCore.createDriver(dbType)
CreateDriverBody(dbType) ==
    /\ created' =
          IF PlaceholderFound(env)
          THEN [called |-> TRUE, threw |-> TRUE, module |-> <<>>]
          ELSE [called |-> TRUE, threw |-> FALSE,
                module |-> <<driverDependencies(Or(dbType, env.CUBEJS_DB_TYPE))>>]
    /\ UNCHANGED <<initAppCalls, initAppResult, composition, routes>>

\* --------------------------------------------------- dev-server endpoints
DevInit ==
    /\ reqEp = [r \in Reqs |-> "none"]
    /\ reqPc = [r \in Reqs |-> "none"]
    /\ reqFiles = [r \in Reqs |-> <<>>]
    /\ reqRes = [r \in Reqs |-> <<>>]
    /\ reqFail = [r \in Reqs |-> "none"]
    /\ writes = [r \in Reqs |-> <<>>]
    /\ disk = {}

Endpoints ==
    {"/playground/context", "/playground/db-schema", "/playground/files",
     "/playground/generate-schema"}

\* The first statement of each handler: the name passed to this.event.
EventName(ep) ==
    CASE ep = "/playground/context" -> "Dev Server Env Open"
      [] ep = "/playground/db-schema" -> "Dev Server DB Schema Load"
      [] ep = "/playground/files" -> "Dev Server Files Load"
      [] ep = "/playground/generate-schema" -> "Dev Server Generate Schema"

\* scaffoldingTemplate.generateFilesByTableNames(req.body.tables): one file
\* per table name.
GeneratedFiles(tables) ==
    [i \in 1..Len(tables) |-> [fileName |-> <<tables[i], ".js">>, content |-> <<"cube", tables[i]>>]]

\* path.join(dir, name)
PathJoin(dir, name) == dir \o <<"/">> \o name

\* path.join('schema', file.fileName)
WriteTarget(file) == PathJoin(<<"schema">>, file.fileName)

FileNames(files) == [i \in 1..Len(files) |-> files[i].fileName]

\* A handler up to its first await: the event is sent off (and not awaited),
\* then /playground/context answers at once, the two schema routes call
\* getDriver(), and /playground/files asks the repository.
HandlerHead(r, ep, factoryOk) ==
    /\ reqPc[r] = "none"
    /\ \E i \in DOMAIN routes : routes[i] = ep
    /\ reqEp' = [reqEp EXCEPT ![r] = ep]
    /\ EventCall(EventName(ep), Undefined)
    /\ CASE ep = "/playground/context" ->
              /\ factoryOk
              /\ reqRes' = [reqRes EXCEPT ![r] = <<"cubejsToken", "apiUrl", "anonymousId">>]
              /\ reqPc' = [reqPc EXCEPT ![r] = "responded"]
              /\ UNCHANGED driverVars
         [] ep = "/playground/files" ->
              /\ factoryOk
              /\ reqPc' = [reqPc EXCEPT ![r] = "dataSchemaFiles"]
              /\ UNCHANGED <<driverVars, reqRes>>
         [] OTHER ->
              /\ GetDriverStart(r, factoryOk)
              /\ reqPc' = [reqPc EXCEPT ![r] = "getDriver"]
              /\ UNCHANGED reqRes
    /\ UNCHANGED <<reqFiles, reqFail, writes, disk>>

\* The continuation after `await this.getDriver()`: driver.tablesSchema() is
\* called, or the handler ends with getDriver's error.
AfterGetDriver(r) ==
    /\ reqPc[r] = "getDriver"
    /\ gdPc[r] \in {"resolved", "rejected"}
    /\ IF gdPc[r] = "resolved"
       THEN /\ reqPc' = [reqPc EXCEPT ![r] = "tablesSchema"]
            /\ UNCHANGED reqFail
       ELSE /\ reqPc' = [reqPc EXCEPT ![r] = "failed"]
            /\ reqFail' = [reqFail EXCEPT ![r] = "getDriver"]
    /\ UNCHANGED <<reqEp, reqFiles, reqRes, writes, disk>>

\* The continuation after `await driver.tablesSchema()`.  /playground/db-schema
\* answers; /playground/generate-schema generates the files and starts all
\* the writes at once (files.map(file => fs.writeFile(...))), to await them
\* together; with no file to write it answers.
AfterTablesSchema(r, ok, tables) ==
    /\ reqPc[r] = "tablesSchema"
    /\ IF ~ok
       THEN /\ reqPc' = [reqPc EXCEPT ![r] = "failed"]
            /\ reqFail' = [reqFail EXCEPT ![r] = "tablesSchema"]
            /\ tables = <<>>
            /\ UNCHANGED <<reqFiles, reqRes, writes>>
       ELSE IF reqEp[r] = "/playground/db-schema"
       THEN /\ reqRes' = [reqRes EXCEPT ![r] = <<"tablesSchema">>]
            /\ reqPc' = [reqPc EXCEPT ![r] = "responded"]
            /\ tables = <<>>
            /\ UNCHANGED <<reqFiles, reqFail, writes>>
       ELSE LET files == GeneratedFiles(tables)
            IN  /\ reqFiles' = [reqFiles EXCEPT ![r] = files]
                /\ writes' = [writes EXCEPT ![r] = [i \in 1..Len(files) |-> "pending"]]
                /\ IF Len(files) = 0
                   THEN /\ reqRes' = [reqRes EXCEPT ![r] = <<"files">>]
                        /\ reqPc' = [reqPc EXCEPT ![r] = "responded"]
                   ELSE /\ reqPc' = [reqPc EXCEPT ![r] = "writeFile"]
                        /\ UNCHANGED reqRes
                /\ UNCHANGED reqFail
    /\ UNCHANGED <<reqEp, disk>>

\* The callback of one fs.writeFile.  Promise.all rejects with the first
\* write that fails and resolves when every write has succeeded; the
\* handler's continuation runs before the next callback.  A write that is
\* still pending when the handler has ended goes on.
WriteFileSettles(r, i, ok) ==
    /\ i \in DOMAIN writes[r]
    /\ writes[r][i] = "pending"
    /\ writes' = [writes EXCEPT ![r][i] = IF ok THEN "ok" ELSE "failed"]
    /\ disk' = IF ok THEN disk \cup {WriteTarget(reqFiles[r][i])} ELSE disk
    /\ IF reqPc[r] # "writeFile"
       THEN UNCHANGED <<reqPc, reqRes, reqFail>>
       ELSE IF ~ok
       THEN /\ reqPc' = [reqPc EXCEPT ![r] = "failed"]
            /\ reqFail' = [reqFail EXCEPT ![r] = "writeFile"]
            /\ UNCHANGED reqRes
       ELSE IF \A j \in DOMAIN writes[r] : j # i => writes[r][j] = "ok"
       THEN /\ reqRes' = [reqRes EXCEPT ![r] = <<"files">> \o FileNames(reqFiles[r])]
            /\ reqPc' = [reqPc EXCEPT ![r] = "responded"]
            /\ UNCHANGED reqFail
       ELSE UNCHANGED <<reqPc, reqRes, reqFail>>
    /\ UNCHANGED <<reqEp, reqFiles>>

\* The continuation after `await this.repository.dataSchemaFiles()`.
AfterDataSchemaFiles(r, ok) ==
    /\ reqPc[r] = "dataSchemaFiles"
    /\ IF ok
       THEN /\ reqRes' = [reqRes EXCEPT ![r] = <<"files">>]
            /\ reqPc' = [reqPc EXCEPT ![r] = "responded"]
            /\ UNCHANGED reqFail
       ELSE /\ reqPc' = [reqPc EXCEPT ![r] = "failed"]
            /\ reqFail' = [reqFail EXCEPT ![r] = "dataSchemaFiles"]
            /\ UNCHANGED reqRes
    /\ UNCHANGED <<reqEp, reqFiles, writes, disk>>

\* ------------------------------------------------ uncaughtException handler
\* What can be thrown.  The number of the exception tells the values apart.
Tag(x) == ToString(x)

ErrorObject(x) ==
    [nullish |-> FALSE, stack |-> Str(<<"Error: boom", Tag(x)>>), message |-> Str(<<"boom", Tag(x)>>),
     text |-> Str(<<"Error: boom", Tag(x)>>)]
RedisError(x) ==
    [nullish |-> FALSE, stack |-> Str(<<"Error: ", "Redis connection to", Tag(x)>>),
     message |-> Str(<<"Redis connection to", Tag(x)>>), text |-> Str(<<"Error: ", "Redis connection to", Tag(x)>>)]
\* throw 'text': a string has neither stack nor message
ThrownString(x) ==
    [nullish |-> FALSE, stack |-> Undefined, message |-> Undefined, text |-> Str(<<"text", Tag(x)>>)]
\* throw null, throw undefined: reading a property of it throws a TypeError
ThrownNull(x) ==
    [nullish |-> TRUE, stack |-> Undefined, message |-> Undefined, text |-> Undefined]
\* throw Object.create(null): no stack, no message and no toString method
ThrownBare(x) ==
    [nullish |-> FALSE, stack |-> Undefined, message |-> Undefined, text |-> Undefined]

ThrownValues(x) == {ErrorObject(x), RedisError(x), ThrownString(x), ThrownNull(x), ThrownBare(x)}

Platforms == {<<"win", "32">>, <<"dar", "win">>, <<"linux">>}

\* The three branches on process.platform.
RedisHint ==
    IF IndexOf(platform, <<"win">>) = 0 THEN "windows"
    ELSE IF IndexOf(platform, <<"dar", "win">>) = 0 THEN "mac"
    ELSE "other"

\* e.message && e.message.indexOf('Redis connection to') !== -1
IsRedisError(e) ==
    /\ Truthy(e.message)
    /\ IndexOf(e.message.s, <<"Redis connection to">>) # -1

\* A handler that issues a report for every exception.
ReportAlwaysUnset == TRUE

\* if (!causeErrorPromise)
ReportUnset == causeErrorPromise = 0

FatalInit ==
    /\ platform \in Platforms
    /\ thrown = <<>>
    /\ hpc = [x \in Excs |-> "none"]
    /\ causeErrorPromise = 0
    /\ guidance = <<>>
    /\ exited = FALSE
    /\ exitCode = 0

\* (e.stack || e.message || e): the value whose toString() is reported
ErrorSubject(e) == Or(e.stack, Or(e.message, e.text))

\* The handler up to `await causeErrorPromise`.  Reading e.stack of null or
\* undefined throws, and so does calling a toString that is not there: the
\* async handler then ends rejected, before anything is assigned.
HandlerStart(x, e) ==
    /\ ~exited
    /\ x = Len(thrown) + 1
    /\ x \in Excs
    /\ thrown' = Append(thrown, e)
    /\ IF e.nullish
       THEN /\ hpc' = [hpc EXCEPT ![x] = "rejected"]
            /\ UNCHANGED <<guidance, causeErrorPromise, events>>
       ELSE /\ guidance' = IF IsRedisError(e) THEN Append(guidance, RedisHint) ELSE guidance
            /\ IF ~ReportUnset
               THEN /\ hpc' = [hpc EXCEPT ![x] = "awaiting"]
                    /\ UNCHANGED <<causeErrorPromise, events>>
               ELSE IF ErrorSubject(e).t = "undefined"
               THEN /\ hpc' = [hpc EXCEPT ![x] = "rejected"]
                    /\ UNCHANGED <<causeErrorPromise, events>>
               ELSE /\ EventCall("Dev Server Fatal Error", ErrorSubject(e))
                    /\ causeErrorPromise' = Len(events) + 1
                    /\ hpc' = [hpc EXCEPT ![x] = "awaiting"]
    /\ UNCHANGED <<platform, exited, exitCode>>

\* A handler that does not wait for the report before it exits.
HandlerResumeNoWait(x) ==
    /\ ~exited
    /\ hpc[x] = "awaiting"
    /\ hpc' = [hpc EXCEPT ![x] = "exited"]
    /\ exited' = TRUE
    /\ exitCode' = 1
    /\ UNCHANGED <<platform, thrown, causeErrorPromise, guidance, events>>

\* The continuation after `await causeErrorPromise`: process.exit(1).
HandlerResume(x) ==
    /\ ~exited
    /\ hpc[x] = "awaiting"
    /\ events[causeErrorPromise].promise # "pending"
    /\ IF events[causeErrorPromise].promise = "fulfilled"
       THEN /\ hpc' = [hpc EXCEPT ![x] = "exited"]
            /\ exited' = TRUE
            /\ exitCode' = 1
       ELSE /\ hpc' = [hpc EXCEPT ![x] = "rejected"]
            /\ UNCHANGED <<exited, exitCode>>
    /\ UNCHANGED <<platform, thrown, causeErrorPromise, guidance, events>>

\* ------------------------------------------- specification: driver cache
\* The orchestrator calls its driver accessor, () => this.getDriver().
\* Calls are numbered in the order they are made.
CallGetDriver(c) ==
    /\ \A b \in Calls : b < c => gdPc[b] # "idle"
    /\ \E factoryOk \in BOOLEAN : GetDriverStart(c, factoryOk)
    /\ UNCHANGED <<cfgVars, appVars, events, fatalVars, devVars>>

TestConnectionSettles(c) ==
    /\ \E testOk \in BOOLEAN : GetDriverResume(c, testOk)
    /\ UNCHANGED <<cfgVars, appVars, events, fatalVars, devVars>>

DriverNext ==
    \E c \in Calls : CallGetDriver(c) \/ TestConnectionSettles(c)

\* No exception has been thrown and no event has been sent.
InitDriver ==
    /\ DevServerBuilt
    /\ AppInit
    /\ DriverInit
    /\ events = <<>>
    /\ DevInit
    /\ FatalInit
    /\ platform = <<"linux">>

SpecDriver == InitDriver /\ [][DriverNext]_vars

\* ------------------------------- specification: the fatal-error supervisor
\* A dev-mode instance whose handler is registered; exceptions are thrown
\* while the telemetry sink answers, fails or stays silent.
UncaughtException(x) ==
    /\ \E e \in ThrownValues(x) : HandlerStart(x, e)
    /\ UNCHANGED <<cfgVars, appVars, driverVars, devVars>>

HandlerContinues(x) ==
    /\ HandlerResume(x)
    /\ UNCHANGED <<cfgVars, appVars, driverVars, devVars>>

SinkAnswersTrack(i) ==
    /\ ~exited
    /\ \E ok \in BOOLEAN : TrackSettles(i, ok)
    /\ UNCHANGED <<cfgVars, appVars, fatalVars, driverVars, devVars>>

SinkAnswersFlush(i) ==
    /\ ~exited
    /\ \E ok \in BOOLEAN : FlushSettles(i, ok)
    /\ UNCHANGED <<cfgVars, appVars, fatalVars, driverVars, devVars>>

FatalNext ==
    \/ \E x \in Excs : UncaughtException(x) \/ HandlerContinues(x)
    \/ \E i \in 1..MaxExc : SinkAnswersTrack(i) \/ SinkAnswersFlush(i)

\* No getDriver call is in progress.
InitFatal ==
    /\ DevServerBuilt
    /\ AppInit
    /\ DriverInit
    /\ events = <<>>
    /\ DevInit
    /\ FatalInit

SpecFatal == InitFatal /\ [][FatalNext]_vars

\* The event loop runs every continuation whose promise has settled.  The
\* sink is taken to answer every call in the end, which the code does not
\* enforce: what fails under this specification fails without it as well.
FairSpecFatal ==
    /\ SpecFatal
    /\ \A x \in Excs : WF_vars(HandlerContinues(x))
    /\ \A i \in 1..MaxExc : WF_vars(SinkAnswersTrack(i)) /\ WF_vars(SinkAnswersFlush(i))

\* --------------------------------------------- specification: constructor
\* A process that constructs instances, with any options, in any environment.
NewCubejsServerCore ==
    /\ \E options \in OptionObjects : Construct(options)
    /\ UNCHANGED <<appVars, driverVars, events, fatalVars, devVars>>

ConfigNext == NewCubejsServerCore

InitConfig ==
    /\ env \in {[DevEnv EXCEPT !.CUBEJS_API_SECRET = a, !.CUBEJS_DB_TYPE = d, !.NODE_ENV = n] :
                  a \in EnvSecrets, d \in EnvDbTypes, n \in EnvNodeEnvs}
    /\ inst = NoInstance
    /\ ctor = [calls |-> 0, options |-> EmptyObject, threw |-> FALSE, before |-> NoEffects]
    /\ effects = NoEffects
    /\ AppInit
    /\ DriverInit
    /\ events = <<>>
    /\ DevInit
    /\ FatalInit
    /\ platform = <<"linux">>

SpecConfig == InitConfig /\ [][ConfigNext]_vars

\* --------------------------------------------- specification: composition
\* An instance built from the environment, in dev-mode or not (by NODE_ENV
\* or by the devServer option), with any values in the four credential
\* variables; the server then composes the app and the default driver factory
\* constructs drivers.
CredentialValues ==
    {Undefined,
     Str(<<>>),
     Str(placeholderSubstr \o <<"H", "O", "S", "T", ">">>),
     Str(<<"x">> \o placeholderSubstr),
     Str(SubSeq(placeholderSubstr, 1, Len(placeholderSubstr) - 1)),
     Str(<<"d", "b">>)}

InitApp ==
    /\ InitAppBody
    /\ UNCHANGED <<cfgVars, driverVars, fatalVars, devVars>>

CreateDriver ==
    /\ \E dbType \in {Undefined, Str(<<"mysql">>), Str(<<"oracle">>)} : CreateDriverBody(dbType)
    /\ UNCHANGED <<cfgVars, driverVars, events, fatalVars, devVars>>

ComposeNext == InitApp \/ CreateDriver

InitCompose ==
    /\ env \in {[DevEnv EXCEPT !.NODE_ENV = n, !.CUBEJS_DB_HOST = h, !.CUBEJS_DB_NAME = d,
                               !.CUBEJS_DB_USER = u, !.CUBEJS_DB_PASS = w] :
                  n \in {Undefined, Str(<<"production">>)},
                  h \in CredentialValues, d \in CredentialValues,
                  u \in CredentialValues, w \in CredentialValues}
    /\ \E v \in {Absent, Bool(TRUE), Bool(FALSE)} :
          LET o == [EmptyObject EXCEPT !.devServer = v]
              r == Constructed(o, env, NoEffects)
          IN  /\ inst = r.inst
              /\ effects = r.effects
              /\ ctor = [calls |-> 1, options |-> o, threw |-> r.threw, before |-> NoEffects]
    /\ AppInit
    /\ DriverInit
    /\ events = <<>>
    /\ DevInit
    /\ FatalInit
    /\ platform = <<"linux">>

SpecCompose == InitCompose /\ [][ComposeNext]_vars

\* ---------------------------------------- specification: dev-server routes
\* A dev server after initApp: requests come in on the playground routes
\* while the driver, the repository, the file system and the telemetry sink
\* answer or fail.  Requests are numbered in the order they arrive.
TableLists == {<<>>, <<"orders">>, <<"orders", "users">>}

Request(r) ==
    /\ \A q \in Reqs : q < r => reqPc[q] # "none"
    /\ \E ep \in Endpoints, factoryOk \in BOOLEAN : HandlerHead(r, ep, factoryOk)
    /\ UNCHANGED <<cfgVars, appVars, fatalVars>>

DriverTested(r) ==
    /\ \E testOk \in BOOLEAN : GetDriverResume(r, testOk)
    /\ UNCHANGED <<cfgVars, appVars, events, fatalVars, devVars>>

GotDriver(r) ==
    /\ AfterGetDriver(r)
    /\ UNCHANGED <<cfgVars, appVars, driverVars, events, fatalVars>>

GotTablesSchema(r) ==
    /\ \E ok \in BOOLEAN, tables \in TableLists : AfterTablesSchema(r, ok, tables)
    /\ UNCHANGED <<cfgVars, appVars, driverVars, events, fatalVars>>

GotDataSchemaFiles(r) ==
    /\ \E ok \in BOOLEAN : AfterDataSchemaFiles(r, ok)
    /\ UNCHANGED <<cfgVars, appVars, driverVars, events, fatalVars>>

FileWritten(r) ==
    /\ \E i \in DOMAIN writes[r], ok \in BOOLEAN : WriteFileSettles(r, i, ok)
    /\ UNCHANGED <<cfgVars, appVars, driverVars, events, fatalVars>>

DevNext ==
    \/ \E r \in Reqs : \/ Request(r)
                       \/ DriverTested(r)
                       \/ GotDriver(r)
                       \/ GotTablesSchema(r)
                       \/ GotDataSchemaFiles(r)
                       \/ FileWritten(r)
    \/ \E i \in 1..(MaxReq + 1) : SinkAnswersTrack(i) \/ SinkAnswersFlush(i)

\* initApp has run on a dev-mode instance, built with the default schemaPath
\* or with one of the caller's, and its 'Dev Server Start' event has been
\* delivered.
InitDev ==
    /\ env = DevEnv
    /\ \E p \in {Absent, Str(<<"given">>)} :
          LET o == [EmptyObject EXCEPT !.schemaPath = p]
              r == Constructed(o, DevEnv, NoEffects)
          IN  /\ inst = r.inst
              /\ effects = r.effects
              /\ ctor = [calls |-> 1, options |-> o, threw |-> r.threw, before |-> NoEffects]
    /\ initAppCalls = 1
    /\ initAppResult = "resolved"
    /\ composition = <<"checkEnvForPlaceholders", "createCompilerApi", "createOrchestratorApi",
                       "new ApiGateway", "apiGateway.initApp", "initDevEnv">>
    /\ routes = GatewayRoutes \o DevRoutes
    /\ created = [called |-> FALSE, threw |-> FALSE, module |-> <<>>]
    /\ events = <<[name |-> "Dev Server Start", props |-> Undefined, stage |-> "settled",
                   failedAt |-> "none", promise |-> "fulfilled"]>>
    /\ DriverInit
    /\ DevInit
    /\ FatalInit
    /\ platform = <<"linux">>

SpecDev == InitDev /\ [][DevNext]_vars

\* ---------------------------------------------------- claims: constructor
SuppliedByCaller(k) == Truthy(Get(ctor.options, k))

NothingDone ==
    /\ ctor.threw
    /\ ~inst.built
    /\ effects = ctor.before

\* C8 as stated: whenever the driver factory, the secret or the type is
\* not supplied (by the caller, nor, for secret and type, by the environment),
\* the constructor throws and creates and registers nothing.
C8_NotSuppliedThrows ==
    (/\ ctor.calls > 0
     /\ \/ ~SuppliedByCaller("driverFactory")
        \/ ~SuppliedByCaller("apiSecret") /\ ~Truthy(env.CUBEJS_API_SECRET)
        \/ ~SuppliedByCaller("dbType") /\ ~Truthy(env.CUBEJS_DB_TYPE))
        => NothingDone

\* C8 as amended: the constructor throws, and creates and registers
\* nothing (no FileRepository, no Analytics client, no handler), whenever the
\* caller passes a driverFactory key with a falsy value, or the secret or the
\* type is supplied neither by the caller nor by the environment.  A
\* driverFactory key left out is filled by the default factory.
C8_MissingRequiredThrows ==
    (/\ ctor.calls > 0
     /\ \/ ctor.options.driverFactory # Absent /\ ~SuppliedByCaller("driverFactory")
        \/ ~SuppliedByCaller("apiSecret") /\ ~Truthy(env.CUBEJS_API_SECRET)
        \/ ~SuppliedByCaller("dbType") /\ ~Truthy(env.CUBEJS_DB_TYPE))
        => NothingDone

\* A dev-mode instance exists with its handler; the next call, without a
\* type anywhere, throws and leaves the counts where they were.
C8_Witness ==
    /\ ctor.calls = 2
    /\ ctor.before = [repositories |-> 1, analyticsClients |-> 1, handlers |-> 1]
    /\ ctor.options.dbType = Absent /\ ~Truthy(env.CUBEJS_DB_TYPE)
    /\ SuppliedByCaller("driverFactory") /\ SuppliedByCaller("apiSecret")
    /\ NothingDone

\* The last constructor call built a dev-mode instance.
BuiltInDevMode == inst.built /\ Truthy(Get(inst.options, "devServer"))

\* C11: a constructor call that does not build a dev-mode instance
\* registers no uncaughtException handler, and the process never has more
\* than one handler registered, however many instances are constructed.
C11_HandlerInstalledOnce ==
    /\ (ctor.calls > 0 /\ ~BuiltInDevMode) => effects.handlers = ctor.before.handlers
    /\ effects.handlers <= 1

MergedFields == {"driverFactory", "apiSecret", "dbType", "devServer"}

\* What the environment gives for a field the caller leaves out.
EnvDefault(k) ==
    CASE k = "apiSecret" -> env.CUBEJS_API_SECRET
      [] k = "dbType" -> env.CUBEJS_DB_TYPE
      [] k = "devServer" -> IF env.NODE_ENV = Str(<<"production">>) THEN Bool(FALSE) ELSE Bool(TRUE)
      [] k = "driverFactory" -> Function("createDriver")

\* The caller's value for a key the caller's object has, the default otherwise.
Resolved(k) == IF ctor.options[k] # Absent THEN ctor.options[k] ELSE EnvDefault(k)

\* C13: for driverFactory, apiSecret, dbType and devServer, the
\* constructor goes by the caller's value wherever the caller's object has the
\* key (an explicit undefined included) and by the default otherwise
\* (CUBEJS_API_SECRET, CUBEJS_DB_TYPE, devServer true exactly when NODE_ENV is
\* not 'production'): it throws exactly when one of the three required values
\* so resolved is falsy, and the instance it builds holds the values so
\* resolved.
C13_CallerOverridesDefaults ==
    ctor.calls > 0 =>
        /\ ctor.threw <=>
               \E k \in {"driverFactory", "apiSecret", "dbType"} : ~Truthy(Resolved(k))
        /\ ~ctor.threw =>
               /\ \A k \in MergedFields : inst.options[k] = Resolved(k)
               /\ inst.driverFactory = Resolved("driverFactory")
               /\ inst.apiSecret = Resolved("apiSecret")
               /\ inst.dbType = Resolved("dbType")
               /\ inst.hasEvent = (Resolved("devServer") = Bool(TRUE))

\* The caller's secret and factory win over the environment's, the type
\* comes from CUBEJS_DB_TYPE and NODE_ENV=production turns dev-mode off.
C13_Witness ==
    /\ ctor.calls > 0 /\ inst.built
    /\ env.CUBEJS_API_SECRET = Str(<<"env-secret">>)
    /\ ctor.options.apiSecret = Str(<<"given">>) /\ inst.apiSecret = Str(<<"given">>)
    /\ ctor.options.driverFactory = Function("given") /\ inst.driverFactory = Function("given")
    /\ ctor.options.dbType = Absent /\ inst.dbType = Str(<<"postgres">>)
    /\ ctor.options.devServer = Absent /\ env.NODE_ENV = Str(<<"production">>)
    /\ inst.options.devServer = Bool(FALSE)

\* ---------------------------------------------- claims: placeholder check
BeginsWithMarker(v) ==
    /\ v.t = "string"
    /\ Len(v.s) >= Len(placeholderSubstr)
    /\ SubSeq(v.s, 1, Len(placeholderSubstr)) = placeholderSubstr

SomeCredentialIsPlaceholder == \E k \in credentials : BeginsWithMarker(env[k])

\* C9: initApp and createDriver fail with the placeholder error exactly
\* when one of the four credential variables begins with '<YOUR_DB_'; unset,
\* empty, a cut marker or a marker further in the value fail neither.
C9_PlaceholderChecks ==
    /\ initAppCalls > 0 =>
          (initAppResult = "placeholder error" <=> SomeCredentialIsPlaceholder)
    /\ created.called => (created.threw <=> SomeCredentialIsPlaceholder)

\* Only the password is a placeholder, and both checks have failed.
C9_Witness ==
    /\ BeginsWithMarker(env.CUBEJS_DB_PASS)
    /\ IndexOf(env.CUBEJS_DB_HOST.s, placeholderSubstr) = 1
    /\ env.CUBEJS_DB_NAME = Undefined
    /\ env.CUBEJS_DB_USER = Str(<<>>)
    /\ initAppResult = "placeholder error" /\ composition = <<"checkEnvForPlaceholders">>
    /\ created.threw

\* ------------------------------------------------------- claims: initApp
\* this.options.devServer is true
DevServerResolvedTrue == Get(inst.options, "devServer") = Bool(TRUE)

StartEvents == {i \in DOMAIN events : events[i].name = "Dev Server Start"}

\* C12: an initApp call that composes the app registers, after the
\* gateway's routes, the four /playground routes and serve-static and sends
\* one 'Dev Server Start' event when the resolved devServer option is true,
\* and registers the gateway's routes alone and sends no event when it is
\* not; so the dev extensions are on the app exactly when devServer is true.
C12_DevExtensionsIffDevServer ==
    /\ [][(initAppCalls' = initAppCalls + 1 /\ initAppResult' = "resolved") =>
            IF DevServerResolvedTrue
            THEN /\ routes' = routes \o GatewayRoutes \o DevRoutes
                 /\ Len(events') = Len(events) + 1
                 /\ SubSeq(events', 1, Len(events)) = events
                 /\ events'[Len(events')].name = "Dev Server Start"
            ELSE /\ routes' = routes \o GatewayRoutes
                 /\ events' = events
       ]_vars
    /\ []((\E i \in DOMAIN routes : routes[i] \in Endpoints \cup {"serveStatic"})
            => DevServerResolvedTrue)
    /\ [](Cardinality(StartEvents) = (IF DevServerResolvedTrue
                                       THEN Len(routes) \div Len(GatewayRoutes \o DevRoutes)
                                       ELSE 0))

\* The caller's devServer: true wins over NODE_ENV=production, and initApp
\* has activated the dev extensions.
C12_Witness ==
    /\ env.NODE_ENV = Str(<<"production">>)
    /\ ctor.options.devServer = Bool(TRUE)
    /\ initAppCalls = 1
    /\ routes = GatewayRoutes \o DevRoutes
    /\ Cardinality(StartEvents) = 1

\* The statements of initApp, in the order the claim gives.
StepsInOrder ==
    <<"checkEnvForPlaceholders", "createCompilerApi", "createOrchestratorApi",
      "new ApiGateway", "apiGateway.initApp", "initDevEnv">>

\* C17: the steps an initApp call performed are the first steps of:
\* placeholder check, compiler, orchestrator, gateway construction, gateway
\* route registration, dev extensions; a call that completes performed the
\* first five, and the sixth exactly in dev-mode, and the gateway's routes are
\* on the app before the dev routes; a call made while a credential is a
\* placeholder performed the check alone, registered no route and sent no
\* event.
C17_StepsInOrder ==
    /\ [](initAppCalls > 0 =>
            /\ Len(composition) \in 1..Len(StepsInOrder)
            /\ composition = SubSeq(StepsInOrder, 1, Len(composition))
            /\ initAppResult = "resolved" =>
                   Len(composition) = (IF DevServerResolvedTrue THEN 6 ELSE 5)
            /\ initAppResult = "placeholder error" => Len(composition) = 1)
    /\ [](\A i \in DOMAIN routes :
            routes[i] = DevRoutes[1] => (i > 1 /\ routes[i - 1] = GatewayRoutes[1]))
    /\ [][(initAppCalls' = initAppCalls + 1 /\ SomeCredentialIsPlaceholder) =>
            /\ initAppResult' = "placeholder error"
            /\ composition' = <<"checkEnvForPlaceholders">>
            /\ routes' = routes
            /\ events' = events
       ]_vars

\* A dev-mode instance whose CUBEJS_DB_USER is a placeholder: initApp was
\* called twice and the app has no route.
C17_Witness ==
    /\ BuiltInDevMode
    /\ BeginsWithMarker(env.CUBEJS_DB_USER)
    /\ initAppCalls = 2
    /\ initAppResult = "placeholder error"
    /\ routes = <<>> /\ events = <<>>

\* ------------------------------------------------- claims: dev endpoints
\* What each route answers with when its collaborators succeed.
ExpectedBody(r) ==
    CASE reqEp[r] = "/playground/context" -> <<"cubejsToken", "apiUrl", "anonymousId">>
      [] reqEp[r] = "/playground/db-schema" -> <<"tablesSchema">>
      [] reqEp[r] = "/playground/files" -> <<"files">>
      [] reqEp[r] = "/playground/generate-schema" -> <<"files">> \o FileNames(reqFiles[r])
      [] OTHER -> <<>>

\* The event request r sent: the start event is the first, then one per request.
EventOf(r) == events[r + 1]

\* C7: the promise of this.event never rejects, whether track or flush
\* fails; /playground/context has answered as soon as its handler ran; a
\* handler ends without an answer only through the failure of the driver, the
\* repository or a write, and an answer sent is the route's own, whatever
\* became of the event.
C7_TelemetryFailureIsInvisible ==
    /\ \A i \in DOMAIN events : events[i].promise # "rejected"
    /\ \A r \in Reqs :
          /\ reqEp[r] = "/playground/context" => reqPc[r] = "responded"
          /\ reqPc[r] = "failed" =>
                 reqFail[r] \in {"getDriver", "tablesSchema", "dataSchemaFiles", "writeFile"}
          /\ reqPc[r] = "responded" => (reqFail[r] = "none" /\ reqRes[r] = ExpectedBody(r))
          /\ reqPc[r] # "responded" => reqRes[r] = <<>>

\* Scaffold generation has answered with both files although the track call
\* of its event failed.
C7_Witness ==
    /\ reqEp[1] = "/playground/generate-schema"
    /\ EventOf(1).name = "Dev Server Generate Schema"
    /\ EventOf(1).failedAt = "track"
    /\ EventOf(1).promise = "fulfilled"
    /\ reqPc[1] = "responded"
    /\ reqRes[1] = <<"files", <<"orders", ".js">>, <<"users", ".js">>>>

\* C10: when the handler of /playground/generate-schema, asked for two
\* tables, ends because the write of the second file failed, the first file
\* has been written and is on disk.
C10_FirstFileOnDiskWhenSecondFails ==
    \A r \in Reqs :
        (/\ reqEp[r] = "/playground/generate-schema"
         /\ Len(reqFiles[r]) = 2
         /\ reqPc[r] = "failed"
         /\ reqFail[r] = "writeFile"
         /\ writes[r][2] = "failed"
         /\ writes[r][1] # "failed")
            => (writes[r][1] = "ok" /\ WriteTarget(reqFiles[r][1]) \in disk)

\* C19: every generated file whose write succeeded is on disk in the
\* schema directory of the instance (this.schemaPath, which the file
\* repository reads from) under its reported name, and scaffold generation
\* writes nowhere else, whether schemaPath is the default or the caller's.
C19_WritesIntoSchemaPath ==
    /\ inst.repository = inst.schemaPath
    /\ \A r \in Reqs : \A i \in DOMAIN writes[r] :
           writes[r][i] = "ok" => PathJoin(inst.schemaPath.s, reqFiles[r][i].fileName) \in disk
    /\ \A f \in disk : SubSeq(f, 1, Len(inst.schemaPath.s)) = inst.schemaPath.s

\* ------------------------------------------------------ claims: getDriver
InFlight == {c \in Calls : gdPc[c] = "testing"}

\* C1: when N >= 2 getDriver() calls overlap across the await of
\* testConnection (all of them made before any has resolved), the driver
\* factory and testConnection are each invoked exactly once in total.
C1_OverlappingCallsConstructOnce ==
    (Cardinality(InFlight) >= 2 /\ \A c \in Calls : gdPc[c] \in {"idle", "testing"})
        => (factoryCalls = 1 /\ testCalls = 1)

\* C3: when the second getDriver() call starts after the first has resolved
\* successfully, the factory and testConnection have each been invoked exactly
\* once, and the second call (as every later one) resolves at once with the
\* instance the first call returned, without constructing or testing anything.
C3_SequentialCallsReuse ==
    (gdPc[1] = "resolved" /\ gdSeen[2] > 0)
        => /\ factoryCalls = 1
           /\ testCalls = 1
           /\ \A c \in Calls : gdSeen[c] > 0 =>
                  /\ gdPc[c] = "resolved"
                  /\ gdRet[c] = gdRet[1]
                  /\ gdLocal[c] = 0

C3_Witness ==
    /\ gdPc[1] = "resolved" /\ gdSeen[1] = 0 /\ gdRet[1] = 1
    /\ gdPc[2] = "resolved" /\ gdSeen[2] = 1 /\ gdRet[2] = 1

\* C4: the step in which a getDriver() call rejects (the factory threw or
\* testConnection rejected) leaves this.driver as it was, the instance of a
\* rejected call is never the cached one, and a call that finds the cache
\* empty invokes the factory anew and, when the factory returns, tests the
\* fresh instance, however many calls have failed before.
C4_FailureLeavesCacheAndRetries ==
    /\ [](\A c \in Calls :
            gdPc[c] = "rejected" => (gdRet[c] = 0 /\ (gdLocal[c] = 0 \/ driver # gdLocal[c])))
    /\ [][\A c \in Calls :
            /\ (gdPc[c] # "rejected" /\ gdPc'[c] = "rejected") => driver' = driver
            /\ (gdPc[c] = "idle" /\ gdPc'[c] # "idle" /\ driver = 0) =>
                   /\ factoryCalls' = factoryCalls + 1
                   /\ gdPc'[c] \in {"testing", "rejected"}
                   /\ gdPc'[c] = "testing" =>
                          /\ testCalls' = testCalls + 1
                          /\ gdLocal'[c] = factoryCalls'
                          /\ \A b \in Calls \ {c} : gdLocal[b] # gdLocal'[c]
       ]_vars

\* Every earlier call failed, one by a throwing factory and one by a failed
\* connection test, and the last call constructs and tests once more.
C4_Witness ==
    /\ driver = 0
    /\ \E a, b \in Calls :
          /\ gdPc[a] = "rejected" /\ gdLocal[a] = 0
          /\ gdPc[b] = "rejected" /\ gdLocal[b] # 0 /\ instState[gdLocal[b]] = "failed"
    /\ gdPc[MaxCalls] = "testing"
    /\ factoryCalls = MaxCalls

\* C14: this.driver is either unset or an instance the factory returned
\* whose testConnection has resolved; an instance still being tested or one
\* whose test failed is never the cached one, and a factory call that threw
\* caches nothing.
C14_OnlyTestedInstanceCached ==
    /\ driver # 0 => (driver \in 1..factoryCalls /\ instState[driver] = "ok")
    /\ \A d \in Calls : instState[d] \in {"none", "testing", "failed"} => driver # d

\* A tested instance is cached while one instance has failed its test and
\* another is still being tested.
C14_Witness ==
    /\ driver # 0
    /\ instState[driver] = "ok"
    /\ \E d \in Calls : instState[d] = "failed"
    /\ \E d \in Calls : instState[d] = "testing"

ResolvedCalls == {c \in Calls : gdPc[c] = "resolved"}

\* C15: the cached handle is one instance that is never replaced: every
\* getDriver() call that has resolved returned the instance that is cached
\* now, so all of them, overlapping or not, returned the same instance.
C15_HandleNeverReplaced ==
    /\ \A c \in ResolvedCalls : gdRet[c] = driver
    /\ \A a, b \in ResolvedCalls : gdRet[a] = gdRet[b]

\* Both calls found the cache empty and both resolved: the later of the two
\* was made while the earlier one was awaiting its connection test.
BothOverlappedAndResolved(a, b) ==
    /\ a # b
    /\ gdSeen[a] = 0 /\ gdSeen[b] = 0
    /\ gdPc[a] = "resolved" /\ gdPc[b] = "resolved"

\* C16: when two getDriver() calls are both made before either completes
\* and both connection tests succeed, each call invoked the factory and
\* testConnection itself (two instances, both tested) and resolved with its
\* own instance; every successful continuation assigns its own instance to
\* this.driver, so the cache holds the instance assigned last and the other
\* one no longer.
C16_LastAssignmentWins ==
    /\ [](\A a, b \in Calls : BothOverlappedAndResolved(a, b) =>
            /\ factoryCalls >= 2 /\ testCalls >= 2
            /\ gdLocal[a] # 0 /\ gdLocal[b] # 0 /\ gdLocal[a] # gdLocal[b]
            /\ instState[gdLocal[a]] = "ok" /\ instState[gdLocal[b]] = "ok"
            /\ gdRet[a] = gdLocal[a] /\ gdRet[b] = gdLocal[b]
            /\ driver # 0
            /\ driver # gdLocal[a] \/ driver # gdLocal[b])
    /\ [][\A c \in Calls :
            (gdPc[c] = "testing" /\ gdPc'[c] = "resolved") => driver' = gdLocal[c]
       ]_vars

\* Two overlapping calls; the second finished first and the first assigned
\* last: the cache holds instance 1 and instance 2 is referenced no longer.
C16_Witness ==
    /\ BothOverlappedAndResolved(1, 2)
    /\ factoryCalls = 2 /\ testCalls = 2
    /\ gdRet[1] = 1 /\ gdRet[2] = 2
    /\ driver = 1

\* ------------------------------------------ claims: fatal-error supervisor
FatalEvents == {i \in DOMAIN events : events[i].name = "Dev Server Fatal Error"}

\* C2: whatever the interleaving of uncaught exceptions, at most one
\* 'Dev Server Fatal Error' event is issued; every handler run that waits,
\* waits for that one report, and the report held is never replaced.
C2_AtMostOneFatalEvent ==
    /\ [](Cardinality(FatalEvents) <= 1)
    /\ [](\A x \in Excs : hpc[x] = "awaiting" => causeErrorPromise \in FatalEvents)
    /\ [][causeErrorPromise # 0 => causeErrorPromise' = causeErrorPromise]_vars

\* A second and a third exception arrive while the first report is pending.
C2_Witness ==
    /\ Len(thrown) = 3
    /\ \A x \in 1..3 : hpc[x] = "awaiting"
    /\ events[causeErrorPromise].promise = "pending"

\* C5: process.exit is called only once the one report has settled (track
\* and flush answered, or the failure of either caught), by whichever handler
\* run, and with status 1.
C5_ExitOnlyAfterReportSettled ==
    exited =>
        /\ causeErrorPromise \in FatalEvents
        /\ events[causeErrorPromise].stage = "settled"
        /\ events[causeErrorPromise].promise = "fulfilled"
        /\ exitCode = 1

\* The exit of a process with two exceptions handled, after a failed flush.
C5_Witness ==
    /\ exited
    /\ Len(thrown) >= 2
    /\ \A x \in 1..2 : hpc[x] \in {"awaiting", "exited"}
    /\ events[causeErrorPromise].failedAt = "flush"

\* C18: first cause wins: every 'Dev Server Fatal Error' report carries
\* the error of the first uncaught exception the handler was given, and the
\* report the handler holds is that one, whatever exceptions follow.
C18_FirstCauseWins ==
    /\ \A i \in FatalEvents : events[i].props = ErrorSubject(thrown[1])
    /\ causeErrorPromise # 0 =>
           /\ causeErrorPromise \in FatalEvents
           /\ events[causeErrorPromise].props = ErrorSubject(thrown[1])

\* C6: every uncaught exception, whatever was thrown, is followed in the end
\* by the exit of the process.
C6_EveryExceptionEndsTheProcess ==
    \A x \in Excs : (hpc[x] # "none") ~> exited

=============================================================================
